---------------------------- MODULE Spec2Model ----------------------------
(***************************************************************************)
(* Model of the subtitle-ocr text accumulator (src/src/text_processor.py)  *)
(* and of the MainWindow handlers that drive it (src/src/ui/main_window.py)*)
(*                                                                         *)
(* A text is a sequence of one-character strings, a timestamp is a number  *)
(* of whole seconds counted from midnight of the first day (strftime drops *)
(* the microseconds of datetime.now(), so nothing finer is observable).    *)
(***************************************************************************)
EXTENDS Integers, Sequences, FiniteSets, TLC

(***************************************************************************)
(* Bounds of the model.                                                    *)
(***************************************************************************)
\* add_text is not called any more once `entries` holds MaxEntries entries.
MaxEntries == 2
\* The clock is advanced at most MaxTicks seconds past ClockStart.
MaxTicks == 1
\* Longest string given to get_similarity in SpecSim.
MaxLen == 4

(***************************************************************************)
(* Characters and str methods.                                             *)
(***************************************************************************)
\* The characters str.strip() removes (those that occur in the model).
Whitespace == {" ", "\n"}

\* str.lower() on one character.
LowerChar(c) ==
    CASE c = "A" -> "a"
      [] c = "B" -> "b"
      [] c = "H" -> "h"
      [] c = "W" -> "w"
      [] c = "S" -> "s"
      [] c = "R" -> "r"
      [] c = "T" -> "t"
      [] OTHER -> c

\* str.lower()
Lower(s) == [i \in 1..Len(s) |-> LowerChar(s[i])]

RECURSIVE LStrip(_)
LStrip(s) ==
    IF s # <<>> /\ Head(s) \in Whitespace THEN LStrip(Tail(s)) ELSE s

RECURSIVE RStrip(_)
RStrip(s) ==
    IF s # <<>> /\ s[Len(s)] \in Whitespace
    THEN RStrip(SubSeq(s, 1, Len(s) - 1))
    ELSE s

\* str.strip()
Strip(s) == RStrip(LStrip(s))

(***************************************************************************)
(* difflib.SequenceMatcher(None, a, b).ratio(), as text_processor.py calls *)
(* it.  Indices are 1-based and ranges half-open: [alo, ahi) x [blo, bhi).  *)
(* The autojunk heuristic only acts when len(b) >= 200 and isjunk is None,  *)
(* so no element is junk for the strings of this model.                    *)
(***************************************************************************)
\* Length of the common run of a[i..] and b[j..] inside the ranges.
RECURSIVE RunLen(_, _, _, _, _, _)
RunLen(a, b, i, j, ahi, bhi) ==
    IF i < ahi /\ j < bhi /\ a[i] = b[j]
    THEN 1 + RunLen(a, b, i + 1, j + 1, ahi, bhi)
    ELSE 0

SetMax(S) == CHOOSE x \in S : \A y \in S : y <= x
SetMin(S) == CHOOSE x \in S : \A y \in S : x <= y

\* find_longest_match: <<i, j, k>> with a[i..i+k) = b[j..j+k), k maximal,
\* and among those the block starting earliest in a, then earliest in b;
\* <<alo, blo, 0>> when nothing matches.
FindLongestMatch(a, b, alo, ahi, blo, bhi) ==
    LET I == alo..(ahi - 1)
        J == blo..(bhi - 1)
        sizes == {RunLen(a, b, i, j, ahi, bhi) : i \in I, j \in J}
        k == IF sizes = {} THEN 0 ELSE SetMax(sizes)
    IN  IF k = 0 THEN <<alo, blo, 0>>
        ELSE LET bi == SetMin({i \in I : \E j \in J :
                                   RunLen(a, b, i, j, ahi, bhi) = k})
                 bj == SetMin({j \in J : RunLen(a, b, bi, j, ahi, bhi) = k})
             IN  <<bi, bj, k>>

\* Sum of the sizes of get_matching_blocks(): the longest match, then the
\* same on the pieces to its left and to its right.
RECURSIVE Matches(_, _, _, _, _, _)
Matches(a, b, alo, ahi, blo, bhi) ==
    LET m == FindLongestMatch(a, b, alo, ahi, blo, bhi)
    IN  IF m[3] = 0 THEN 0
        ELSE m[3]
             + (IF alo < m[1] /\ blo < m[2]
                THEN Matches(a, b, alo, m[1], blo, m[2]) ELSE 0)
             + (IF m[1] + m[3] < ahi /\ m[2] + m[3] < bhi
                THEN Matches(a, b, m[1] + m[3], ahi, m[2] + m[3], bhi) ELSE 0)

\* ratio() = 2.0 * matches / (len(a) + len(b)), 1.0 for two empty strings;
\* kept as the fraction <<numerator, denominator>>.
Ratio(a, b) ==
    IF Len(a) + Len(b) = 0 THEN <<1, 1>>
    ELSE <<2 * Matches(a, b, 1, Len(a) + 1, 1, Len(b) + 1), Len(a) + Len(b)>>

\* Comparison of fractions with positive denominators.
FracGE(r, t) == r[1] * t[2] >= t[1] * r[2]
FracEQ(r, t) == r[1] * t[2] = t[1] * r[2]

\* TextProcessor.get_similarity
get_similarity(text1, text2) == Ratio(Lower(text1), Lower(text2))

(***************************************************************************)
(* State.                                                                  *)
(***************************************************************************)
VARIABLES
    similarity_threshold,  \* TextProcessor.similarity_threshold, a fraction
    entries,               \* TextProcessor.entries: <<timestamp, text>> pairs
    last_text,             \* TextProcessor._last_text
    now,                   \* what datetime.now() returns
    call,                  \* the last call made on the TextProcessor
    file,                  \* the contents of the file at the export path
    sim,                   \* two strings and what get_similarity returned
    win,                   \* the MainWindow: its fields and widgets
    tesseract_installed    \* whether pytesseract finds the Tesseract binary

procVars == <<similarity_threshold, entries, last_text>>
uiVars == <<win, tesseract_installed>>
vars == <<similarity_threshold, entries, last_text, now, call, file, sim,
          win, tesseract_installed>>

\* similarity_threshold: float = 0.8
DefaultThreshold == <<8, 10>>
\* The thresholds a TextProcessor is constructed with in the model.
Thresholds == {DefaultThreshold, <<6, 10>>}

SecondsPerDay == 24 * 60 * 60
\* The clock starts three seconds before midnight.
ClockStart == SecondsPerDay - 3

\* The texts handed to add_text: "", " ", "   ", "\n ", "ab", " ab\n", "Ab",
\* "aab", "abaab", "aaaba", "cd", "Hello, world!", "Hello, World!".
Texts ==
    { <<>>, <<" ">>, <<" ", " ", " ">>, <<"\n", " ">>,
      <<"a", "b">>, <<" ", "a", "b", "\n">>, <<"A", "b">>,
      <<"a", "a", "b">>,
      <<"a", "b", "a", "a", "b">>, <<"a", "a", "a", "b", "a">>,
      <<"c", "d">>,
      <<"H", "e", "l", "l", "o", ",", " ", "w", "o", "r", "l", "d", "!">>,
      <<"H", "e", "l", "l", "o", ",", " ", "W", "o", "r", "l", "d", "!">> }

\* No get_similarity call: no strings, no results.
Pending == <<0, 0>>
NoSim == [text1 |-> <<>>, text2 |-> <<>>, fwd |-> Pending, rev |-> Pending]

\* `call` records the last call made on the TextProcessor: its name, its
\* argument (the text of add_text, the format of save), the value add_text
\* returned, the exception save raised, and, for clear and for the add_text
\* made right after a clear, the _last_text that clear discarded.
\* No call yet.
NoCall == [op |-> "init", arg |-> <<>>, ret |-> FALSE, raised |-> "none",
           cleared |-> <<>>]

\* TextProcessor.__init__
InitProcessor ==
    /\ similarity_threshold \in Thresholds
    /\ entries = <<>>
    /\ last_text = <<>>

(***************************************************************************)
(* TextProcessor.                                                          *)
(***************************************************************************)
\* _is_duplicate, comparing without case folding.
is_duplicate_cased(text) ==
    IF last_text = <<>> THEN FALSE
    ELSE FracGE(Ratio(last_text, text), similarity_threshold)

\* _is_duplicate
is_duplicate(text) ==
    IF last_text = <<>> THEN FALSE
    ELSE FracGE(Ratio(Lower(last_text), Lower(text)), similarity_threshold)

\* add_text that remembers a rejected duplicate as the last text.
add_text_tracks_rejected(text) ==
    LET t == Strip(text)
    IN  IF t = <<>>
        THEN [ret |-> FALSE, entries |-> entries, last_text |-> last_text]
        ELSE IF is_duplicate(t)
        THEN [ret |-> FALSE, entries |-> entries, last_text |-> t]
        ELSE [ret |-> TRUE, entries |-> Append(entries, <<now, t>>),
              last_text |-> t]

\* add_text that leaves _last_text as it was when it appends.
add_text_stale_last(text) ==
    LET t == Strip(text)
    IN  IF t = <<>> \/ is_duplicate(t)
        THEN [ret |-> FALSE, entries |-> entries, last_text |-> last_text]
        ELSE [ret |-> TRUE, entries |-> Append(entries, <<now, t>>),
              last_text |-> last_text]

\* add_text without the empty-text check.
add_text_accepts_empty(text) ==
    LET t == Strip(text)
    IN  IF is_duplicate(t)
        THEN [ret |-> FALSE, entries |-> entries, last_text |-> last_text]
        ELSE [ret |-> TRUE, entries |-> Append(entries, <<now, t>>),
              last_text |-> t]

\* add_text: the value returned and the fields after the call.
add_text(text) ==
    LET t == Strip(text)
    IN  IF t = <<>>
        THEN [ret |-> FALSE, entries |-> entries, last_text |-> last_text]
        ELSE IF is_duplicate(t)
        THEN [ret |-> FALSE, entries |-> entries, last_text |-> last_text]
        ELSE [ret |-> TRUE, entries |-> Append(entries, <<now, t>>),
              last_text |-> t]

\* A clear() that resets _last_text and keeps the entries.
clear_last_only == [entries |-> entries, last_text |-> <<>>]

\* A clear() that keeps _last_text.
clear_keeps_last == [entries |-> <<>>, last_text |-> last_text]

\* clear: the fields after the call.
clear == [entries |-> <<>>, last_text |-> <<>>]

\* get_latest_text; <<>> stands for None (_last_text is "" exactly then).
get_latest_text == last_text

(***************************************************************************)
(* Export: what save_to_txt and save_to_srt write.                         *)
(***************************************************************************)
Digits == <<"0", "1", "2", "3", "4", "5", "6", "7", "8", "9">>
Digit(n) == Digits[n + 1]
\* A strftime field of two digits (%H, %M, %S).
TwoDigits(n) == <<Digit(n \div 10), Digit(n % 10)>>

\* f"{i}" for a positive integer.
RECURSIVE Decimal(_)
Decimal(n) ==
    IF n < 10 THEN <<Digit(n)>> ELSE Decimal(n \div 10) \o <<Digit(n % 10)>>

\* timestamp.strftime("%H:%M:%S"): the time of day, the date is not written.
strftime_HMS(timestamp) ==
    LET tod == timestamp % SecondsPerDay
    IN  TwoDigits(tod \div 3600) \o <<":">> \o TwoDigits((tod \div 60) % 60)
        \o <<":">> \o TwoDigits(tod % 60)

\* The loop of save_to_txt: f"[{time_str}] {text}\n" for each entry.
RECURSIVE TxtContent(_)
TxtContent(es) ==
    IF es = <<>> THEN <<>>
    ELSE <<"[">> \o strftime_HMS(es[1][1]) \o <<"]", " ">> \o es[1][2]
         \o <<"\n">> \o TxtContent(Tail(es))

\* The loop of save_to_srt from index i on: the index line, the timing line
\* from timestamp to timestamp + timedelta(seconds=2), the text, a blank line.
RECURSIVE SrtContent(_, _)
SrtContent(es, i) ==
    IF es = <<>> THEN <<>>
    ELSE LET start == es[1][1]
             end == es[1][1] + 2
         IN  Decimal(i) \o <<"\n">>
             \o strftime_HMS(start) \o <<",", "0", "0", "0">>
             \o <<" ", "-", "-", ">", " ">>
             \o strftime_HMS(end) \o <<",", "0", "0", "0">> \o <<"\n">>
             \o es[1][2] \o <<"\n", "\n">>
             \o SrtContent(Tail(es), i + 1)

\* save_to_txt: mkdir and open raise OSError when io_ok is false, before
\* anything is written; otherwise the file is overwritten.
save_to_txt(io_ok) ==
    IF io_ok
    THEN [raised |-> "none", file |-> TxtContent(entries),
          entries |-> entries, last_text |-> last_text]
    ELSE [raised |-> "OSError", file |-> file,
          entries |-> entries, last_text |-> last_text]

\* save_to_srt
save_to_srt(io_ok) ==
    IF io_ok
    THEN [raised |-> "none", file |-> SrtContent(entries, 1),
          entries |-> entries, last_text |-> last_text]
    ELSE [raised |-> "OSError", file |-> file,
          entries |-> entries, last_text |-> last_text]

\* save that empties the accumulator once the file is written.
save_then_clears(format, io_ok) ==
    LET r == IF Lower(format) = <<"s", "r", "t">>
             THEN save_to_srt(io_ok) ELSE save_to_txt(io_ok)
    IN  IF io_ok THEN [r EXCEPT !.entries = <<>>, !.last_text = <<>>] ELSE r

\* save: the exception raised, the file and the fields after the call.
save(format, io_ok) ==
    IF Lower(format) = <<"s", "r", "t">>
    THEN save_to_srt(io_ok)
    ELSE save_to_txt(io_ok)

(***************************************************************************)
(* MainWindow: construction.                                               *)
(***************************************************************************)
\* interval_slider.setMinimum(200), setMaximum(2000), setValue(500)
SliderMin == 200
SliderMax == 2000
SliderDefault == 500
\* format_combo.addItems(["txt", "srt"])
FormatItems == << <<"t", "x", "t">>, <<"s", "r", "t">> >>

\* MainWindow.__init__ with _setup_ui and _check_dependencies, then
\* window.show() of main(): the fields and widget states of a new window.
\* region is ScreenCapture._region (<<>> for None), format_type the local
\* variable of _save_to_file (<<>> outside of it), modal the dialog that is
\* open, alive "running" until the window is closed or the process aborts.
MainWindow_init(installed) ==
    [ is_running |-> FALSE,
      region_set |-> FALSE,
      region |-> <<>>,
      timer_active |-> FALSE,
      timer_interval |-> 0,
      interval_slider |-> SliderDefault,
      start_btn |-> FALSE,
      stop_btn |-> FALSE,
      select_btn |-> TRUE,
      format_combo |-> FormatItems[1],
      format_type |-> <<>>,
      result_text |-> <<>>,
      stats_label |-> 0,
      status |-> "Ready",
      warned |-> ~installed,
      modal |-> "none",
      visible |-> TRUE,
      overlay |-> FALSE,
      unhandled |-> "none",
      alive |-> "running",
      tick_pc |-> "idle",
      tick_image |-> <<>>,
      tick_text |-> <<>>,
      stop_queued |-> FALSE ]

\* The fixed window value of the specifications that have no window.
NoWindow == MainWindow_init(TRUE)

(***************************************************************************)
(* Spec: a TextProcessor driven by add_text and clear calls.               *)
(***************************************************************************)
Init ==
    /\ InitProcessor
    /\ now = ClockStart
    /\ call = NoCall
    /\ file = <<>>
    /\ sim = NoSim
    /\ win = NoWindow
    /\ tesseract_installed = TRUE

\* One second passes.
Advance ==
    /\ now < ClockStart + MaxTicks
    /\ now' = now + 1
    /\ UNCHANGED <<procVars, call, file, sim, uiVars>>

AddText(text) ==
    /\ Len(entries) < MaxEntries
    /\ LET r == add_text(text)
       IN  /\ entries' = r.entries
           /\ last_text' = r.last_text
           /\ call' = [op |-> "add_text", arg |-> text, ret |-> r.ret,
                       raised |-> "none",
                       cleared |-> IF call.op = "clear" THEN call.cleared
                                   ELSE <<>>]
    /\ UNCHANGED <<similarity_threshold, now, file, sim, uiVars>>

Clear ==
    /\ entries' = clear.entries
    /\ last_text' = clear.last_text
    /\ call' = [op |-> "clear", arg |-> <<>>, ret |-> FALSE,
                raised |-> "none", cleared |-> last_text]
    /\ UNCHANGED <<similarity_threshold, now, file, sim, uiVars>>

Next ==
    \/ \E text \in Texts : AddText(text)
    \/ Clear
    \/ Advance

Spec == Init /\ [][Next]_vars

(***************************************************************************)
(* SpecExport: add_text, clear and save calls with a running clock.        *)
(***************************************************************************)
\* The texts handed to add_text: "cd", "ab", "a\nb".
ExportTexts == { <<"c", "d">>, <<"a", "b">>, <<"a", "\n", "b">> }
\* The formats handed to save: "txt", "srt", "SRT".
Formats == { <<"t", "x", "t">>, <<"s", "r", "t">>, <<"S", "R", "T">> }

Save(format, io_ok) ==
    /\ LET r == save(format, io_ok)
       IN  /\ file' = r.file
           /\ entries' = r.entries
           /\ last_text' = r.last_text
           /\ call' = [op |-> "save", arg |-> format, ret |-> FALSE,
                       raised |-> r.raised, cleared |-> <<>>]
    /\ UNCHANGED <<similarity_threshold, now, sim, uiVars>>

NextExport ==
    \/ \E text \in ExportTexts : AddText(text)
    \/ \E format \in Formats, io_ok \in BOOLEAN : Save(format, io_ok)
    \/ Clear
    \/ Advance

SpecExport == Init /\ [][NextExport]_vars

(***************************************************************************)
(* SpecSim: get_similarity applied to every pair of strings of at most     *)
(* MaxLen characters, in both argument orders.                             *)
(***************************************************************************)
SimAlphabet == {"a", "b", "A"}
Strings(n) == UNION {[1..k -> SimAlphabet] : k \in 0..n}

InitSim ==
    /\ similarity_threshold = DefaultThreshold
    /\ entries = <<>>
    /\ last_text = <<>>
    /\ now = ClockStart
    /\ call = NoCall
    /\ win = NoWindow
    /\ tesseract_installed = TRUE
    /\ file = <<>>
    /\ \E a \in Strings(MaxLen), b \in Strings(MaxLen) :
           sim = [text1 |-> a, text2 |-> b, fwd |-> Pending, rev |-> Pending]

\* get_similarity(text1, text2)
GetSimilarity ==
    /\ sim.fwd = Pending
    /\ sim' = [sim EXCEPT !.fwd = get_similarity(sim.text1, sim.text2)]
    /\ UNCHANGED <<procVars, now, call, file, uiVars>>

\* get_similarity(text2, text1)
GetSimilaritySwapped ==
    /\ sim.rev = Pending
    /\ sim' = [sim EXCEPT !.rev = get_similarity(sim.text2, sim.text1)]
    /\ UNCHANGED <<procVars, now, call, file, uiVars>>

NextSim ==
    \/ GetSimilarity
    \/ GetSimilaritySwapped

SpecSim == InitSim /\ [][NextSim]_vars

(***************************************************************************)
(* SpecUI: the MainWindow under user events and timer ticks.  Qt runs one  *)
(* handler at a time; a modal dialog (QFileDialog, QMessageBox) blocks the *)
(* user's input to the window while the timer keeps firing in the dialog's *)
(* event loop.  An exception that leaves a handler is not caught anywhere  *)
(* (main.py installs no excepthook): PyQt6 then aborts the process.  The   *)
(* clock stands still here: no handler but add_text reads it.              *)
(***************************************************************************)
\* What extract_text returns (it strips its result): "", "cd", "ab".
OcrTexts == { <<>>, <<"c", "d">>, <<"a", "b">> }
\* The <<width, height>> the overlay emits: its initial and its minimum size.
Regions == { <<400, 100>>, <<100, 50>> }
SliderValues == {SliderMin, SliderDefault, SliderMax}

InitUI ==
    /\ similarity_threshold = DefaultThreshold
    /\ entries = <<>>
    /\ last_text = <<>>
    /\ now = ClockStart
    /\ call = NoCall
    /\ file = <<>>
    /\ sim = NoSim
    /\ tesseract_installed \in BOOLEAN
    /\ win = MainWindow_init(tesseract_installed)

\* The user can act on the main window.
Interactive ==
    /\ win.alive = "running"
    /\ win.modal = "none"
    /\ win.visible

\* An exception left a handler: the process aborts.
Abort(w, exception) == [w EXCEPT !.unhandled = exception, !.alive = "aborted"]

\* _select_region, and the overlay shown by the single-shot timer.
SelectRegion ==
    /\ Interactive
    /\ win.select_btn
    /\ win' = [win EXCEPT !.visible = FALSE, !.overlay = TRUE]
    /\ UNCHANGED <<procVars, now, call, file, sim, tesseract_installed>>

\* _confirm_selection of the overlay, then _on_region_selected.
OnRegionSelected(region) ==
    /\ win.alive = "running"
    /\ win.overlay
    /\ win' = [win EXCEPT !.region = region, !.region_set = TRUE,
                          !.start_btn = TRUE, !.status = "Region selected",
                          !.visible = TRUE, !.overlay = FALSE]
    /\ UNCHANGED <<procVars, now, call, file, sim, tesseract_installed>>

\* _cancel_selection of the overlay, then _on_selection_cancelled.
OnSelectionCancelled ==
    /\ win.alive = "running"
    /\ win.overlay
    /\ win' = [win EXCEPT !.status = "Selection cancelled",
                          !.visible = TRUE, !.overlay = FALSE]
    /\ UNCHANGED <<procVars, now, call, file, sim, tesseract_installed>>

\* An _on_interval_changed that leaves the running timer's interval alone.
OnIntervalChanged_slider_only(value) ==
    /\ Interactive
    /\ value # win.interval_slider
    /\ win' = [win EXCEPT !.interval_slider = value]
    /\ UNCHANGED <<procVars, now, call, file, sim, tesseract_installed>>

\* _on_interval_changed, on the slider moving to another value.
OnIntervalChanged(value) ==
    /\ Interactive
    /\ value # win.interval_slider
    /\ win' = [win EXCEPT !.interval_slider = value,
                          !.timer_interval =
                              IF win.is_running THEN value ELSE @]
    /\ UNCHANGED <<procVars, now, call, file, sim, tesseract_installed>>

\* The user picks another item of format_combo.
FormatChanged(item) ==
    /\ Interactive
    /\ item # win.format_combo
    /\ win' = [win EXCEPT !.format_combo = item]
    /\ UNCHANGED <<procVars, now, call, file, sim, tesseract_installed>>

\* _start_capture
start_capture(w) ==
    IF ~w.region_set THEN w
    ELSE [w EXCEPT !.is_running = TRUE, !.start_btn = FALSE,
                   !.stop_btn = TRUE, !.select_btn = FALSE,
                   !.timer_active = TRUE,
                   !.timer_interval = w.interval_slider,
                   !.status = "Capturing..."]

\* A _stop_capture that leaves capture_timer running.
stop_capture_keeps_timer(w) ==
    [w EXCEPT !.is_running = FALSE,
              !.start_btn = TRUE, !.stop_btn = FALSE, !.select_btn = TRUE,
              !.status = "Stopped"]

\* A _stop_capture that toggles the start and stop buttons.
stop_capture_toggles(w) ==
    [w EXCEPT !.is_running = FALSE,
              !.timer_active = FALSE,
              !.start_btn = ~w.start_btn,
              !.stop_btn = ~w.stop_btn,
              !.select_btn = TRUE,
              !.status = "Stopped"]

\* _stop_capture
stop_capture(w) ==
    [w EXCEPT !.is_running = FALSE, !.timer_active = FALSE,
              !.start_btn = TRUE, !.stop_btn = FALSE, !.select_btn = TRUE,
              !.status = "Stopped"]

\* A click on the enabled start button.
StartCapture ==
    /\ Interactive
    /\ win.start_btn
    /\ win' = start_capture(win)
    /\ UNCHANGED <<procVars, now, call, file, sim, tesseract_installed>>

\* A click on the enabled stop button.
StopCapture ==
    /\ Interactive
    /\ win.stop_btn
    /\ win' = stop_capture(win)
    /\ UNCHANGED <<procVars, now, call, file, sim, tesseract_installed>>

\* _on_capture_tick: capture, extract_text, add_text, result_text.append.
OnCaptureTick ==
    /\ win.alive = "running"
    /\ win.timer_active
    /\ Len(entries) < MaxEntries
    /\ IF win.region = <<>>
       THEN UNCHANGED <<entries, last_text, call, win>>
       ELSE IF ~tesseract_installed
       THEN /\ win' = Abort(win, "RuntimeError")
            /\ UNCHANGED <<entries, last_text, call>>
       ELSE \E text \in OcrTexts :
              LET r == add_text(text)
              IN  /\ entries' = r.entries
                  /\ last_text' = r.last_text
                  /\ call' = [op |-> "add_text", arg |-> text,
                              ret |-> r.ret, raised |-> "none",
                              cleared |-> IF call.op = "clear"
                                          THEN call.cleared ELSE <<>>]
                  /\ win' = IF r.ret
                            THEN [win EXCEPT
                                    !.result_text = Append(@, text),
                                    !.stats_label = Len(r.entries)]
                            ELSE win
    /\ UNCHANGED <<similarity_threshold, now, file, sim, tesseract_installed>>

\* _clear_results
ClearResults ==
    /\ Interactive
    /\ entries' = clear.entries
    /\ last_text' = clear.last_text
    /\ call' = [op |-> "clear", arg |-> <<>>, ret |-> FALSE,
                raised |-> "none", cleared |-> last_text]
    /\ win' = [win EXCEPT !.result_text = <<>>,
                          !.stats_label = Len(clear.entries),
                          !.status = "Cleared"]
    /\ UNCHANGED <<similarity_threshold, now, file, sim, tesseract_installed>>

\* _save_to_file up to its first dialog: the "Nothing to Save" box, or the
\* file dialog for the format read from format_combo.
SaveToFile ==
    /\ Interactive
    /\ win' = IF Len(entries) = 0
              THEN [win EXCEPT !.modal = "Nothing to Save"]
              ELSE [win EXCEPT !.modal = "file_dialog",
                               !.format_type = win.format_combo]
    /\ UNCHANGED <<procVars, now, call, file, sim, tesseract_installed>>

\* _save_to_file that reports "Saved" whatever save did.
save_chosen_reports_anyway(r) ==
    [win EXCEPT !.status = "Saved to", !.modal = "Saved", !.format_type = <<>>]

\* _save_to_file behind processor.save(filepath, format_type), r being what
\* save did: its exception leaves the handler, otherwise the status bar and
\* the "Saved" box report the export.
save_chosen(r) ==
    IF r.raised # "none"
    THEN Abort([win EXCEPT !.modal = "none", !.format_type = <<>>], r.raised)
    ELSE [win EXCEPT !.status = "Saved to", !.modal = "Saved",
                     !.format_type = <<>>]

\* _save_to_file from the return of QFileDialog.getSaveFileName on: nothing
\* when the dialog was cancelled, else the export.
FileDialogDone(chosen, io_ok) ==
    /\ win.alive = "running"
    /\ win.modal = "file_dialog"
    /\ IF ~chosen
       THEN /\ win' = [win EXCEPT !.modal = "none", !.format_type = <<>>]
            /\ UNCHANGED <<entries, last_text, call, file>>
       ELSE LET r == save(win.format_type, io_ok)
            IN  /\ file' = r.file
                /\ entries' = r.entries
                /\ last_text' = r.last_text
                /\ call' = [op |-> "save", arg |-> win.format_type,
                            ret |-> FALSE, raised |-> r.raised,
                            cleared |-> <<>>]
                /\ win' = save_chosen(r)
    /\ UNCHANGED <<similarity_threshold, now, sim, tesseract_installed>>

\* The user closes a message box; the handler that opened it returns.
BoxClosed ==
    /\ win.alive = "running"
    /\ win.modal \in {"Nothing to Save", "Saved"}
    /\ win' = [win EXCEPT !.modal = "none"]
    /\ UNCHANGED <<procVars, now, call, file, sim, tesseract_installed>>

\* closeEvent
CloseEvent ==
    /\ Interactive
    /\ win' = [stop_capture(win) EXCEPT !.alive = "closed"]
    /\ UNCHANGED <<procVars, now, call, file, sim, tesseract_installed>>

\* The handlers other than the timer's: user input and its dialogs.
UserEvents ==
    \/ SelectRegion
    \/ \E region \in Regions : OnRegionSelected(region)
    \/ OnSelectionCancelled
    \/ \E value \in SliderValues : OnIntervalChanged(value)
    \/ \E i \in 1..Len(FormatItems) : FormatChanged(FormatItems[i])
    \/ StartCapture
    \/ StopCapture
    \/ ClearResults
    \/ SaveToFile
    \/ \E chosen \in BOOLEAN, io_ok \in BOOLEAN : FileDialogDone(chosen, io_ok)
    \/ BoxClosed
    \/ CloseEvent

NextUI ==
    \/ UserEvents
    \/ OnCaptureTick

SpecUI == InitUI /\ [][NextUI]_vars

(***************************************************************************)
(* SpecLoop: the window with _on_capture_tick taken one call at a time.    *)
(* win.tick_pc is the handler's position ("idle" when it is not running),  *)
(* win.tick_image and win.tick_text are its locals image and text, and     *)
(* win.stop_queued is a click on the stop button that arrived while the    *)
(* handler was running and waits in the event queue.                       *)
(***************************************************************************)
\* The rectangles set_region accepts: those of the overlay and empty ones.
Rectangles == Regions \cup { <<0, 50>>, <<100, 0>> }

\* ScreenCapture.capture: the possible results for a region. An image is
\* represented by its size. sct.grab of an empty rectangle either raises or
\* returns an image without pixels, depending on the platform.
capture(region) ==
    IF region = <<>> THEN { "None" }
    ELSE IF region[1] = 0 \/ region[2] = 0
    THEN { "ScreenShotError", "image" }
    ELSE { "image" }

\* OCREngine.extract_text: the possible results for an image. An image
\* without pixels makes preprocess_image or the imaging library raise
\* (300 / width with width 0) or gives no text.
extract_text(image) ==
    IF image[1] = 0
    THEN { [raised |-> "ZeroDivisionError", text |-> <<>>] }
    ELSE IF ~tesseract_installed
    THEN { [raised |-> "RuntimeError", text |-> <<>>] }
    ELSE IF image[2] = 0
    THEN { [raised |-> "ValueError", text |-> <<>>],
           [raised |-> "none", text |-> <<>>] }
    ELSE { [raised |-> "none", text |-> t] : t \in OcrTexts }

\* The event loop dispatches the next user event: no handler is running
\* and no earlier click waits in the queue.
LoopIdle ==
    /\ win.tick_pc = "idle"
    /\ ~win.stop_queued

\* _on_capture_tick, its first statement: image = self.capture.capture(),
\* and the return when there is no image.
TickCapture ==
    /\ win.alive = "running"
    /\ win.tick_pc = "idle"
    /\ Len(entries) < MaxEntries
    /\ \E out \in capture(win.region) :
         win' = IF out = "None" THEN win
                ELSE IF out = "image"
                THEN [win EXCEPT !.tick_pc = "captured",
                                 !.tick_image = win.region]
                ELSE Abort(win, out)
    /\ UNCHANGED <<procVars, now, call, file, sim, tesseract_installed>>

\* The timeout of the active capture_timer calls _on_capture_tick.
TimerTick ==
    /\ win.timer_active
    /\ TickCapture

\* _on_capture_tick: text = self.ocr.extract_text(image).
TickOcr ==
    /\ win.alive = "running"
    /\ win.tick_pc = "captured"
    /\ \E r \in extract_text(win.tick_image) :
         win' = IF r.raised # "none" THEN Abort(win, r.raised)
                ELSE [win EXCEPT !.tick_pc = "recognized",
                                 !.tick_image = <<>>,
                                 !.tick_text = r.text]
    /\ UNCHANGED <<procVars, now, call, file, sim, tesseract_installed>>

\* _on_capture_tick: add_text, result_text.append, _update_stats, return.
TickAdd ==
    /\ win.alive = "running"
    /\ win.tick_pc = "recognized"
    /\ LET r == add_text(win.tick_text)
           w == [win EXCEPT !.tick_pc = "idle", !.tick_text = <<>>]
       IN  /\ entries' = r.entries
           /\ last_text' = r.last_text
           /\ call' = [op |-> "add_text", arg |-> win.tick_text,
                       ret |-> r.ret, raised |-> "none",
                       cleared |-> IF call.op = "clear"
                                   THEN call.cleared ELSE <<>>]
           /\ win' = IF r.ret
                     THEN [w EXCEPT !.result_text = Append(@, win.tick_text),
                                    !.stats_label = Len(r.entries)]
                     ELSE w
    /\ UNCHANGED <<similarity_threshold, now, file, sim, tesseract_installed>>

\* The user clicks the enabled stop button while _on_capture_tick is
\* running: the click waits in the event queue.
QueueStop ==
    /\ Interactive
    /\ win.stop_btn
    /\ win.tick_pc # "idle"
    /\ ~win.stop_queued
    /\ win' = [win EXCEPT !.stop_queued = TRUE]
    /\ UNCHANGED <<procVars, now, call, file, sim, tesseract_installed>>

\* The handler has returned: the queued click reaches the stop button.
DeliverStop ==
    /\ Interactive
    /\ win.tick_pc = "idle"
    /\ win.stop_queued
    /\ win' = IF win.stop_btn
              THEN [stop_capture(win) EXCEPT !.stop_queued = FALSE]
              ELSE [win EXCEPT !.stop_queued = FALSE]
    /\ UNCHANGED <<procVars, now, call, file, sim, tesseract_installed>>

NextLoop ==
    \/ LoopIdle /\ UserEvents
    \/ TimerTick
    \/ TickOcr
    \/ TickAdd
    \/ QueueStop
    \/ DeliverStop

SpecLoop == InitUI /\ [][NextLoop]_vars

(***************************************************************************)
(* SpecCapture: ScreenCapture.set_region and _on_capture_tick called       *)
(* directly, with any rectangle and with no region at all.                 *)
(***************************************************************************)
\* ScreenCapture.set_region
SetRegion(rect) ==
    /\ win.alive = "running"
    /\ win.tick_pc = "idle"
    /\ rect # win.region
    /\ win' = [win EXCEPT !.region = rect]
    /\ UNCHANGED <<procVars, now, call, file, sim, tesseract_installed>>

NextCapture ==
    \/ \E rect \in Rectangles : SetRegion(rect)
    \/ TickCapture
    \/ TickOcr
    \/ TickAdd

SpecCapture == InitUI /\ [][NextCapture]_vars


(***************************************************************************)
(* Claims about add_text and clear, checked under Spec.                    *)
(***************************************************************************)
\* The text of the i-th entry.
EntryText(i) == entries[i][2]
\* A string that is empty or made only of whitespace.
IsBlank(text) == \A i \in 1..Len(text) : text[i] \in Whitespace
\* The similarity of a to b reaches the configured threshold.
Similar(a, b) == FracGE(get_similarity(a, b), similarity_threshold)

\* C1: no two adjacent entries have a case-insensitive similarity ratio
\* >= similarity_threshold, whichever of the two is the ratio's first argument.
C1_NoAdjacentSimilar ==
    \A i \in 1..(Len(entries) - 1) :
        /\ ~Similar(EntryText(i), EntryText(i + 1))
        /\ ~Similar(EntryText(i + 1), EntryText(i))

\* C2: add_text of a text that is non-empty after trimming and whose
\* similarity to the last accepted text (the last accepted text being the
\* ratio's first argument) is below the threshold returns true, appends
\* <<now, trimmed text>> at the end, leaves every earlier entry as it was and
\* makes the trimmed text the last-accepted text.
C2_AddAccepts ==
    [][ LET text == call'.arg
            t == Strip(text)
        IN  ( /\ call'.op = "add_text"
              /\ AddText(text)
              /\ t # <<>>
              /\ (last_text = <<>> \/ ~Similar(last_text, t)) )
            => ( /\ call'.ret = TRUE
                 /\ Len(entries') = Len(entries) + 1
                 /\ entries'[Len(entries')] = <<now, t>>
                 /\ SubSeq(entries', 1, Len(entries)) = entries
                 /\ last_text' = t ) ]_vars

\* A second entry was appended behind a first one that is still in place.
C2_Witness ==
    /\ call.op = "add_text"
    /\ call.ret = TRUE
    /\ Len(entries) = 2
    /\ entries[2][2] = Strip(call.arg)
    /\ call.arg # Strip(call.arg)
    /\ entries[1][1] < entries[2][1]

\* C3: add_text of an empty or whitespace-only string returns false and
\* leaves entries and the last-accepted text unchanged, in every state.
C3_BlankRejected ==
    [][ ( /\ call'.op = "add_text"
          /\ AddText(call'.arg)
          /\ IsBlank(call'.arg) )
        => ( /\ call'.ret = FALSE
             /\ entries' = entries
             /\ last_text' = last_text ) ]_vars

\* "   " was rejected by an accumulator that holds an entry.
C3_Witness ==
    /\ call.op = "add_text"
    /\ call.arg = <<" ", " ", " ">>
    /\ call.ret = FALSE
    /\ entries # <<>>
    /\ last_text # <<>>

\* C4: when a last-accepted text exists and its similarity to the trimmed
\* candidate is >= the threshold (equality included), add_text returns false
\* and leaves entries and the last-accepted text unchanged.
C4_DuplicateRejected ==
    [][ LET t == Strip(call'.arg)
        IN  ( /\ call'.op = "add_text"
              /\ AddText(call'.arg)
              /\ last_text # <<>>
              /\ t # <<>>
              /\ Similar(last_text, t) )
            => ( /\ call'.ret = FALSE
                 /\ entries' = entries
                 /\ last_text' = last_text ) ]_vars

\* A candidate whose similarity is exactly the default threshold 0.8 was
\* rejected ("aab" after "ab": 2 * 2 / 5).
C4_Witness ==
    /\ call.op = "add_text"
    /\ call.ret = FALSE
    /\ similarity_threshold = DefaultThreshold
    /\ last_text # <<>>
    /\ Strip(call.arg) # <<>>
    /\ Lower(Strip(call.arg)) # Lower(last_text)
    /\ FracEQ(get_similarity(last_text, Strip(call.arg)), DefaultThreshold)

\* C5: with the default threshold, add_text of a text that is identical to the
\* last accepted text after case folding returns false, the similarity of the
\* two being 1.0.
C5_CaseOnlyRejected ==
    [][ ( /\ call'.op = "add_text"
          /\ AddText(call'.arg)
          /\ similarity_threshold = DefaultThreshold
          /\ last_text # <<>>
          /\ Lower(call'.arg) = Lower(last_text) )
        => ( /\ call'.ret = FALSE
             /\ FracEQ(get_similarity(last_text, call'.arg), <<1, 1>>) ) ]_vars

\* "Hello, World!" was rejected after "Hello, world!" had been accepted.
C5_Witness ==
    /\ call.op = "add_text"
    /\ call.ret = FALSE
    /\ similarity_threshold = DefaultThreshold
    /\ last_text =
         <<"H", "e", "l", "l", "o", ",", " ", "w", "o", "r", "l", "d", "!">>
    /\ call.arg =
         <<"H", "e", "l", "l", "o", ",", " ", "W", "o", "r", "l", "d", "!">>

\* C7: right after clear(), add_text of any text that is non-empty after
\* trimming returns true and leaves exactly one entry, that text.
C7_AddAfterClear ==
    [][ LET t == Strip(call'.arg)
        IN  ( /\ call.op = "clear"
              /\ call'.op = "add_text"
              /\ AddText(call'.arg)
              /\ t # <<>> )
            => ( /\ call'.ret = TRUE
                 /\ Len(entries') = 1
                 /\ entries'[1] = <<now, t>> ) ]_vars

\* A text identical, after case folding, to the one clear() discarded was
\* accepted as the only entry.
C7_Witness ==
    /\ call.op = "add_text"
    /\ call.ret = TRUE
    /\ Len(entries) = 1
    /\ call.cleared # <<>>
    /\ Lower(call.cleared) = Lower(Strip(call.arg))

(***************************************************************************)
(* Claims about get_similarity, checked under SpecSim.                     *)
(***************************************************************************)
\* C6: get_similarity is symmetric: get_similarity(a, b) equals
\* get_similarity(b, a) for all strings a and b.
C6_Symmetric ==
    (sim.fwd # Pending /\ sim.rev # Pending) => FracEQ(sim.fwd, sim.rev)

(***************************************************************************)
(* Claims about export, checked under SpecExport.  The last call being a   *)
(* save that raised nothing, `entries` is what that save wrote.            *)
(***************************************************************************)
\* The lines of a text file: the pieces that end with a line break (and
\* the rest behind the last line break, when there is one).
RECURSIVE SplitLines(_, _)
SplitLines(content, line) ==
    IF content = <<>> THEN (IF line = <<>> THEN <<>> ELSE <<line>>)
    ELSE IF Head(content) = "\n"
         THEN <<line>> \o SplitLines(Tail(content), <<>>)
         ELSE SplitLines(Tail(content), Append(line, Head(content)))

SavedAs(fmt) ==
    /\ call.op = "save"
    /\ call.raised = "none"
    /\ (Lower(call.arg) = <<"s", "r", "t">>) = (fmt = "srt")

\* C8: a "txt" export writes exactly one line per entry, in insertion order,
\* the i-th line being `[HH:MM:SS] text` of the i-th entry.
C8_TxtOneLinePerEntry ==
    SavedAs("txt") =>
        LET lines == SplitLines(file, <<>>)
        IN  /\ Len(lines) = Len(entries)
            /\ \A i \in 1..Len(entries) :
                   lines[i] = <<"[">> \o strftime_HMS(entries[i][1])
                              \o <<"]", " ">> \o entries[i][2]

\* Reading HH:MM:SS back as a number of seconds, and writing a number of
\* seconds as HH:MM:SS.
DigitValue(c) == CHOOSE n \in 0..9 : Digit(n) = c
ParseHMS(t) ==
    (DigitValue(t[1]) * 10 + DigitValue(t[2])) * 3600
    + (DigitValue(t[4]) * 10 + DigitValue(t[5])) * 60
    + DigitValue(t[7]) * 10 + DigitValue(t[8])
FormatHMS(v) ==
    TwoDigits(v \div 3600) \o <<":">> \o TwoDigits((v \div 60) % 60)
    \o <<":">> \o TwoDigits(v % 60)

\* The blocks the claim describes, from index i on: the written end time is
\* the written start time plus two seconds.
RECURSIVE SrtBlocks(_, _)
SrtBlocks(es, i) ==
    IF es = <<>> THEN <<>>
    ELSE LET start == strftime_HMS(es[1][1])
         IN  Decimal(i) \o <<"\n">>
             \o start \o <<",", "0", "0", "0", " ", "-", "-", ">", " ">>
             \o FormatHMS(ParseHMS(start) + 2) \o <<",", "0", "0", "0", "\n">>
             \o es[1][2] \o <<"\n", "\n">>
             \o SrtBlocks(Tail(es), i + 1)

\* C9: an "srt" export writes for the i-th entry the index line i, a timing
\* line whose written end time is exactly 2 seconds after the written start
\* time, the text and a blank line.
C9_SrtTwoSeconds ==
    SavedAs("srt") => file = SrtBlocks(entries, 1)

(***************************************************************************)
(* Claims about export from the window, checked under SpecUI.              *)
(***************************************************************************)
\* C10: the step of _save_to_file that calls processor.save leaves entries
\* and the last-accepted text as they were, whether the write succeeds or
\* fails; when the write fails, the exception of save leaves the handler, the
\* "Saved" box is not shown and the status bar is not changed.
C10_ExportFailureSurfaced ==
    [][ (\E io_ok \in BOOLEAN : FileDialogDone(TRUE, io_ok))
        => ( /\ entries' = entries
             /\ last_text' = last_text
             /\ (call'.raised # "none"
                 => ( /\ win'.unhandled = call'.raised
                      /\ win'.modal # "Saved"
                      /\ win'.status = win.status )) ) ]_vars

\* An export of two entries failed with OSError while capture was running.
C10_Witness ==
    /\ call.op = "save"
    /\ call.raised = "OSError"
    /\ win.unhandled = "OSError"
    /\ win.modal # "Saved"
    /\ win.is_running
    /\ Len(entries) = 2
    /\ last_text = entries[2][2]

(***************************************************************************)
(* Claims about the window, checked under SpecUI.                          *)
(***************************************************************************)
\* C11: with Tesseract missing, the problem is shown at startup, the tick
\* that hits the missing engine ends in a handled error state (no exception
\* leaves the handler, the application does not crash) and the accumulator
\* is unchanged.
C11_MissingEngineHandled ==
    ~tesseract_installed
    => ( /\ win.warned
         /\ win.unhandled = "none"
         /\ win.alive # "aborted"
         /\ entries = <<>>
         /\ last_text = <<>> )

(***************************************************************************)
(* Claims about the accumulator's last-accepted text, checked under Spec.  *)
(***************************************************************************)
\* C15: after any sequence of add_text and clear calls, get_latest_text is
\* the text of the last entry when there are entries, and is None (empty
\* _last_text) exactly when there are none.
C15_LatestIsLastEntry ==
    IF entries = <<>>
    THEN get_latest_text = <<>>
    ELSE /\ get_latest_text # <<>>
         /\ get_latest_text = EntryText(Len(entries))

\* add_text has just accepted a second, different text: the latest text is
\* the second entry's and no longer the first's.
C15_Witness ==
    /\ Len(entries) = 2
    /\ EntryText(1) # EntryText(2)
    /\ call.op = "add_text"
    /\ call.ret = TRUE
    /\ get_latest_text = EntryText(2)

(***************************************************************************)
(* Claims about starting and stopping the capture, checked under SpecUI.   *)
(***************************************************************************)
\* C16: in every reachable state of the window the capture timer is active
\* exactly when is_running is true, is_running implies that a region has
\* been set, the region-select button is disabled while running, and while
\* the timer is active its interval is the slider's current value, which
\* lies in 200..2000 ms.
C16_RunningConsistent ==
    /\ win.timer_active <=> win.is_running
    /\ win.is_running => (win.region_set /\ win.region # <<>>)
    /\ win.is_running => ~win.select_btn
    /\ win.timer_active
       => ( /\ win.timer_interval = win.interval_slider
            /\ win.interval_slider \in SliderMin..SliderMax )

\* The capture runs with the timer at an interval other than the default one
\* of the slider.
C16_Witness ==
    /\ win.is_running
    /\ win.timer_active
    /\ win.region_set
    /\ win.interval_slider # SliderDefault
    /\ win.timer_interval = win.interval_slider

\* The UI state the claim C14 observes.
Observed(w) ==
    <<w.is_running, w.timer_active, w.timer_interval,
      w.start_btn, w.stop_btn, w.select_btn>>

\* C14: from any reachable state, _stop_capture applied twice leaves the same
\* observed state (is_running, timer activity, start/stop/select button
\* enablement) as applied once, and with a region set _start_capture applied
\* twice leaves the same observed state as applied once, the one timer
\* being active.
C14_StartStopIdempotent ==
    /\ Observed(stop_capture(stop_capture(win))) = Observed(stop_capture(win))
    /\ win.region_set
       => ( /\ Observed(start_capture(start_capture(win)))
                = Observed(start_capture(win))
            /\ start_capture(start_capture(win)).timer_active )

\* The capture was started and is running: another _start_capture leaves the
\* observed state as it is, a _stop_capture changes it, and a second
\* _stop_capture changes nothing more.
C14_Witness ==
    /\ win.is_running
    /\ win.region_set
    /\ win.status = "Capturing..."
    /\ Observed(start_capture(win)) = Observed(win)
    /\ Observed(stop_capture(win)) # Observed(win)
    /\ Observed(stop_capture(stop_capture(win))) = Observed(stop_capture(win))

(***************************************************************************)
(* Claims about the capture tick, checked under SpecCapture and SpecLoop.  *)
(***************************************************************************)
\* The region is unset, or is a rectangle of width or height 0.
NoImageRegion(region) ==
    \/ region = <<>>
    \/ region[1] = 0
    \/ region[2] = 0

\* C12: with the capture region unset or set to an empty rectangle, capture
\* returns no image and the tick is skipped silently: the handler returns at
\* once, so that no OCR call is made, no error is raised, and the accumulator
\* and the displayed results are unchanged.
C12_NoRegionTickSkipped ==
    [][ ( /\ win.alive = "running"
          /\ win.tick_pc = "idle"
          /\ NoImageRegion(win.region) )
        => ( /\ win'.tick_pc = "idle"
             /\ win'.unhandled = "none"
             /\ win'.alive = "running"
             /\ entries' = entries
             /\ last_text' = last_text
             /\ win'.result_text = win.result_text ) ]_vars

\* What the stop, clear and save handlers and the dialogs change.
HandlerState(w) ==
    <<w.is_running, w.timer_active, w.timer_interval, w.start_btn,
      w.stop_btn, w.select_btn, w.status, w.modal, w.format_type,
      w.visible, w.overlay, w.region>>

\* C13: capture ticks never overlap. While a tick is in flight it goes from
\* capture to OCR to add_text, no other tick starts and no stop, clear or
\* save handler acts; a stop requested meanwhile waits and changes nothing
\* until the tick has completed; and an entry is added only by a tick that
\* completes while the capture is running, never after a stop has taken
\* effect and before the next start.
C13_TicksAtomic ==
    [][ /\ win.tick_pc # "idle"
           => ( /\ HandlerState(win') = HandlerState(win)
                /\ file' = file
                /\ Len(entries') >= Len(entries)
                /\ win.tick_pc = "captured"
                   => win'.tick_pc \in {"captured", "recognized"}
                /\ win.tick_pc = "recognized"
                   => win'.tick_pc \in {"recognized", "idle"} )
        /\ Len(entries') > Len(entries)
           => ( /\ win.tick_pc = "recognized"
                /\ win'.tick_pc = "idle"
                /\ win.is_running
                /\ win.timer_active )
        /\ (win.stop_queued /\ ~win'.stop_queued)
           => win.tick_pc = "idle" ]_vars

\* A stop was requested while a tick was in flight; the tick has completed
\* and added its entry, and the stop has not taken effect yet.
C13_Witness ==
    /\ win.tick_pc = "idle"
    /\ win.stop_queued
    /\ win.is_running
    /\ call.op = "add_text"
    /\ call.ret = TRUE
    /\ Len(entries) = 1

=============================================================================
